---- MODULE Spec2Model ----
(***************************************************************************)
(* LearnSnap: the AI content pipeline (server/ai-service.ts), the chapter  *)
(* routes that start it and read its result (server/routes.ts), the        *)
(* chapter rows it writes (server/storage.ts) and the AI rate limiter      *)
(* (server/config.ts).                                                     *)
(***************************************************************************)
EXTENDS Integers, Sequences, FiniteSets, TLC

\* ------------------------------------------------------------------ bounds

\* Longest capability reply, in tokens.
MaxLen == 4

\* Most requests one client sends to POST /api/chapters in one window
\* (Spec, SpecLifecycle).
MaxRequests == 2

\* The same where the limiter's threshold is crossed (SpecQuota).
MaxHits == 12

\* Most chapter_results rows.
MaxResults == 1

\* Most learning_sessions rows.
MaxSessions == 1

\* Longest answer list of a submission.
MaxAnswers == 1

\* The longest list of answers or of questions given to calculateScores alone.
MaxScoreLen == 2

\* The largest score and the largest total given to calculateStars alone.
MaxTotal == 16

\* The submit handlers that run at once, and the results they may store.
MaxSubmits == 2

\* The calls of checkAndAwardBadges that run at once.
MaxChecks == 2

\* badgeDefinitions: requirement of First Steps, and the totalScore the
\* perfect_score case compares with.
FirstStepsRequirement == 1
PerfectTotalScore == 100

\* The most photos a chapter may have.
MaxPhotos == 20

\* Days the clock runs (SpecSession).
MaxDays == 8

\* Most tokens of each kind issued (SpecSession).
MaxTokens == 2

\* -------------------------------------------------------- program constants

\* aiLimiter: max requests per window.
AiLimiterMax == 10

\* "5 practice questions exactly" / "10 test questions exactly" of the prompt.
PracticeItems == 5
TestItems == 10

\* calculateScores: calculateStars(totalScore, 15).
TotalQuestions == 15

\* Expiry of the parent token (7 days) and of the child token (24 hours),
\* in days.
ParentExpiryDays == 7
ChildExpiryDays == 1

\* ---------------------------------------------------------------- identities

Parents == {"p1", "p2"}
Children == {"c1", "c2"}
ChapterIds == {"ch1", "ch2"}
Clients == {"ip1"}
ApiKeys == {"gemini", "openai", "anthropic"}

\* No value (undefined / null / no cookie).
None == "none"

\* The children rows' parent_id column.
ChildParent(c) == IF c = "c1" THEN "p1" ELSE "p2"

\* ------------------------------------------------------------ JSON and text

SeqsUpTo(A, n) == UNION {[1..k -> A] : k \in 0..n}

Letters == <<"A", "B", "C", "D">>

\* The i-th question of a generated array; only its correct designator is kept.
QuestionAt(i) == [correct |-> Letters[((i - 1) % 4) + 1]]

Questions(n) == [i \in 1..n |-> QuestionAt(i)]

\* chapters.content NULL.
Null == [kind |-> "null"]

\* The object {} : no practice and no test member.
EmptyObject == [kind |-> "object", hasArrays |-> FALSE, practice |-> <<>>, test |-> <<>>]

\* An object with "practice" and "test" arrays of the given lengths.
ContentWith(p, t) ==
  [kind |-> "object", hasArrays |-> TRUE, practice |-> Questions(p), test |-> Questions(t)]

\* Tokens of a generate / repair reply: braces, prose ("x"), the members
\* "practice":[5 items],"test":[10 items] ("Q") and the same with only
\* 4 practice items ("q").
ContentTokens == {"{", "}", "x", "Q", "q"}

\* Tokens of a verify reply: braces, prose, "status":"PASS" / "FAIL" / "WARN",
\* "issues":[...] ("iA") and "issues":"..." ("iS").
VerdictTokens == {"{", "}", "x", "sP", "sF", "sW", "iA", "iS"}

MemberTokens == {"Q", "q", "sP", "sF", "sW", "iA", "iS"}

Min(S) == CHOOSE m \in S : \A k \in S : m <= k
Max(S) == CHOOSE m \in S : \A k \in S : m >= k

\* text.match(/\{[\s\S]*\}/): from the first "{" to the last "}" (greedy);
\* <<>> when there is no match.
RegexMatch(text) ==
  LET opens == {i \in 1..Len(text) : text[i] = "{"}
      closes == {j \in 1..Len(text) : text[j] = "}"}
  IN IF opens = {} \/ closes = {} THEN <<>>
     ELSE IF Max(closes) < Min(opens) THEN <<>>
     ELSE SubSeq(text, Min(opens), Max(closes))

RECURSIVE IsJSONObject(_), IsMembers(_)

\* JSON.parse accepts s: one object, whose members are member tokens or
\* nested objects.
IsJSONObject(s) ==
  /\ Len(s) >= 2
  /\ s[1] = "{"
  /\ s[Len(s)] = "}"
  /\ IsMembers(SubSeq(s, 2, Len(s) - 1))

IsMembers(s) ==
  \/ s = <<>>
  \/ /\ s[1] \in MemberTokens
     /\ IsMembers(Tail(s))
  \/ /\ s[1] = "{"
     /\ \E k \in 2..Len(s) :
          /\ IsJSONObject(SubSeq(s, 1, k))
          /\ IsMembers(SubSeq(s, k + 1, Len(s)))

\* Nesting depth of position i of s.
Depth(s, i) ==
  Cardinality({j \in 1..(i - 1) : s[j] = "{"}) - Cardinality({j \in 1..(i - 1) : s[j] = "}"})

\* The value of the last top-level member of s among the tokens toks
\* (JSON.parse keeps the last of duplicate keys); None when absent.
LastMember(s, toks) ==
  LET at == {i \in 1..Len(s) : s[i] \in toks /\ Depth(s, i) = 1}
  IN IF at = {} THEN None ELSE s[Max(at)]

\* JSON.parse(s) as ChapterContent, for s an object.
ParseContent(s) ==
  LET m == LastMember(s, {"Q", "q"})
  IN IF m = "Q" THEN ContentWith(PracticeItems, TestItems)
     ELSE IF m = "q" THEN ContentWith(PracticeItems - 1, TestItems)
     ELSE EmptyObject

\* Replies of a capability: the call throws (network error, timeout, HTTP
\* error), or returns text; the repair capability may also return no text block.
ErrorReply == [kind |-> "error", text |-> <<>>]
NoTextReply == [kind |-> "notext", text |-> <<>>]
TextReply(t) == [kind |-> "text", text |-> t]

\* ------------------------------------------------------------ the pipeline

\* extractBase64: the photo matches /^data:([^;]+);base64,(.+)$/.
ExtractBase64Ok(photo) == photo = "dataurl"

\* generateWithGemini up to its call: photos.map(extractBase64) and getGenAI()
\* throw before any request is sent.
GenerateCanCall(photos, ks) ==
  /\ \A i \in 1..Len(photos) : ExtractBase64Ok(photos[i])
  /\ "gemini" \in ks

\* generateWithGemini after its call: the content, or a throw.
GenerateResult(reply) ==
  IF reply.kind # "text" THEN [threw |-> TRUE, why |-> "error", content |-> Null]
  ELSE LET m == RegexMatch(reply.text)
       IN IF m = <<>> THEN [threw |-> TRUE, why |-> "nomatch", content |-> Null]
          ELSE IF ~IsJSONObject(m) THEN [threw |-> TRUE, why |-> "unparseable", content |-> Null]
          ELSE [threw |-> FALSE, why |-> "ok", content |-> ParseContent(m)]

\* How a verify reply is read: the call threw, JSON.parse threw, or parsed.
VerifyKind(reply) ==
  IF reply.kind # "text" THEN "error"
  ELSE LET t == IF reply.text = <<>> THEN <<"{", "}">> ELSE reply.text
       IN IF IsJSONObject(t) THEN "parsed" ELSE "unparseable"

\* result.status || "PASS"
StatusOrPass(member) ==
  IF member = None THEN "PASS"
  ELSE IF member = "sP" THEN "PASS"
  ELSE IF member = "sF" THEN "FAIL"
  ELSE "WARN"

\* verifyWithGPT with a catch that fails closed.
VerifyVerdictFailClosed(reply) ==
  IF VerifyKind(reply) # "parsed" THEN [status |-> "FAIL", issues |-> "array"]
  ELSE LET t == IF reply.text = <<>> THEN <<"{", "}">> ELSE reply.text
       IN [status |-> StatusOrPass(LastMember(t, {"sP", "sF", "sW"})),
           issues |-> IF LastMember(t, {"iA", "iS"}) = "iS" THEN "string" ELSE "array"]

\* verifyWithGPT: the verdict; the catch returns PASS with no issues.
\* issues is "array" or "string" (what the reply's issues member holds).
VerifyVerdict(reply) ==
  IF VerifyKind(reply) # "parsed" THEN [status |-> "PASS", issues |-> "array"]
  ELSE LET t == IF reply.text = <<>> THEN <<"{", "}">> ELSE reply.text
       IN [status |-> StatusOrPass(LastMember(t, {"sP", "sF", "sW"})),
           issues |-> IF LastMember(t, {"iA", "iS"}) = "iS" THEN "string" ELSE "array"]

\* processChapterWithAI: if (verification.status === "PASS") return content.
ReturnsAfterVerify(verdict) == verdict.status = "PASS"

\* fixWithClaude: issues.join("\n") in the prompt, before the try.
IssuesJoinThrows(verdict) == verdict.issues # "array"

\* How a repair reply is read.
FixKind(reply) ==
  IF reply.kind = "error" THEN "error"
  ELSE IF reply.kind = "notext" THEN "notext"
  ELSE LET m == RegexMatch(reply.text)
       IN IF m = <<>> THEN "nomatch"
          ELSE IF ~IsJSONObject(m) THEN "unparseable"
          ELSE "replaced"

\* fixWithClaude: JSON.parse(jsonMatch[0]) of a reply read as "replaced".
FixParsed(reply) ==
  IF FixKind(reply) = "replaced" THEN ParseContent(RegexMatch(reply.text)) ELSE Null

\* fixWithClaude after its call: the parsed reply, or in the catch the
\* content it was given.
FixResult(content, o) == IF o.kind = "replaced" THEN o.parsed ELSE content

\* The replies a capability can give, and what the stages make of them.
\* A verdict outcome is how the reply was read and the verdict returned; a
\* repair outcome is how the reply was read and what JSON.parse gave.
ContentReplies == {ErrorReply} \cup {TextReply(t) : t \in SeqsUpTo(ContentTokens, MaxLen)}
RepairReplies == ContentReplies \cup {NoTextReply}
VerdictReplies == {ErrorReply} \cup {TextReply(t) : t \in SeqsUpTo(VerdictTokens, MaxLen)}

GenerateOutcomes == {GenerateResult(r) : r \in ContentReplies}
VerifyOutcomes == {[kind |-> VerifyKind(r), verdict |-> VerifyVerdict(r)] : r \in VerdictReplies}
FixOutcomes == {[kind |-> FixKind(r), parsed |-> FixParsed(r)] : r \in RepairReplies}

\* One background task (processChapterInBackground) and the run of
\* processChapterWithAI inside it.
\*   pc        where the task is: awaiting a capability ("generating",
\*             "verifying", "repairing", "reverifying"), the run returned or
\*             threw and the row write is pending ("returned", "threw"), the
\*             task ended ("done", "failed"), or no task ("idle")
\*   calls     requests sent to the capabilities so far
\*   content   the local variable content
\*   candidate what stage 1 returned
\*   trace     the stages entered, in order
\*   s1        how stage 1 ended; v1kind, v1status: the first verdict and how
\*             it was read; fix: how the repair reply was read
IdleRun ==
  [pc |-> "idle", calls |-> 0, content |-> Null, candidate |-> Null, trace |-> <<>>,
   s1 |-> None, v1kind |-> None, v1status |-> None, fix |-> None]

\* processChapterWithAI with a step 4 that repairs again on FAIL.
AfterReverifyRepeats(r, o) ==
  IF o.verdict.status = "FAIL"
  THEN [r EXCEPT !.pc = "repairing", !.calls = @ + 1, !.trace = Append(@, "REPAIRING")]
  ELSE [r EXCEPT !.pc = "returned"]

\* processChapterWithAI, step 4: the re-verification verdict is only logged.
AfterReverify(r, o) == [r EXCEPT !.pc = "returned"]

\* verifyWithGPT(content) called the second time: getOpenAI() inside the try.
StartReverify(r, ks) ==
  LET r1 == [r EXCEPT !.trace = Append(@, "RE_VERIFYING")]
  IN IF "openai" \in ks
     THEN [r1 EXCEPT !.pc = "reverifying", !.calls = @ + 1]
     ELSE AfterReverify(r1, [kind |-> "error", verdict |-> [status |-> "PASS", issues |-> "array"]])

\* processChapterWithAI without step 4.
AfterFixNoRecheck(r, o, ks) ==
  [r EXCEPT !.content = FixResult(r.content, o), !.fix = o.kind, !.pc = "returned"]

\* fixWithClaude returned: content = its result, then step 4.
AfterFix(r, o, ks) ==
  StartReverify([r EXCEPT !.content = FixResult(r.content, o), !.fix = o.kind], ks)

\* fixWithClaude(content, verification.issues) called: the prompt is built
\* (issues.join) before the try; getAnthropic() is inside it.
StartFix(r, verdict, ks) ==
  LET r1 == [r EXCEPT !.trace = Append(@, "REPAIRING")]
  IN IF IssuesJoinThrows(verdict) THEN [r1 EXCEPT !.pc = "threw", !.fix = "jointhrew"]
     ELSE IF "anthropic" \in ks THEN [r1 EXCEPT !.pc = "repairing", !.calls = @ + 1]
     ELSE AfterFix(r1, [kind |-> "error", parsed |-> Null], ks)

\* The first verdict is known: return the content, or go on to step 3.
AfterVerify(r, o, ks) ==
  LET r1 == [r EXCEPT !.v1kind = o.kind, !.v1status = o.verdict.status]
  IN IF ReturnsAfterVerify(o.verdict) THEN [r1 EXCEPT !.pc = "returned"]
     ELSE StartFix(r1, o.verdict, ks)

\* verifyWithGPT(content) called the first time.
StartVerify(r, ks) ==
  LET r1 == [r EXCEPT !.trace = Append(@, "VERIFYING")]
  IN IF "openai" \in ks
     THEN [r1 EXCEPT !.pc = "verifying", !.calls = @ + 1]
     ELSE AfterVerify(r1, [kind |-> "error", verdict |-> [status |-> "PASS", issues |-> "array"]], ks)

\* generateWithGemini with a catch that swallows the error.
AfterGenerateSwallows(r, g, ks) ==
  StartVerify([r EXCEPT !.content = g.content, !.candidate = g.content, !.s1 = g.why], ks)

\* generateWithGemini returned or threw.
AfterGenerate(r, g, ks) ==
  IF g.threw THEN [r EXCEPT !.pc = "threw", !.s1 = g.why]
  ELSE StartVerify([r EXCEPT !.content = g.content, !.candidate = g.content, !.s1 = "ok"], ks)

\* processChapterInBackground called: runs up to the first await.
StartRun(photos, ks) ==
  IF GenerateCanCall(photos, ks)
  THEN [IdleRun EXCEPT !.pc = "generating", !.calls = 1, !.trace = <<"GENERATING">>]
  ELSE [IdleRun EXCEPT !.pc = "threw", !.trace = <<"GENERATING">>, !.s1 = "precall"]

\* ------------------------------------------------------------------- state

VARIABLES
  keys,              \* process.env: the API keys that are configured
  chapters,          \* the chapters table
  chapterPhotos,     \* the chapter_photos table: rows per chapter
  run,               \* the background task of each chapter
  hits,              \* aiLimiter's store: requests per client in the window
  children,          \* the children table
  results,           \* the chapter_results table
  learningSessions,  \* the learning_sessions table
  notifications,     \* the notifications table
  now,               \* the clock, in days
  parentTokens,      \* the parent tokens setParentCookie has issued
  childTokens,       \* the child tokens setChildCookie has issued
  cleared,           \* the issued tokens whose cookie a logout response cleared
  calc,              \* a call of calculateScores or calculateStars and its result
  submits,           \* the submit handlers that are between two awaits
  childBadges,       \* the child_badges table
  checks             \* the calls of checkAndAwardBadges that are between two awaits

\* The clock and the credentials.
authVars == <<now, parentTokens, childTokens, cleared>>

\* The handlers in flight and the badges they award.
flightVars == <<submits, childBadges, checks>>

vars ==
  <<keys, chapters, chapterPhotos, run, hits, children, results, learningSessions,
    notifications, now, parentTokens, childTokens, cleared, calc, submits, childBadges,
    checks>>

\* No chapter with this id. writes counts the INSERT and UPDATEs of the row.
NoRow ==
  [exists |-> FALSE, childId |-> None, parentId |-> None, status |-> None,
   content |-> Null, writes |-> 0]

\* No call of a scoring function.
NoCalc == [fn |-> None]

\* A submit handler that is not running: what it holds while it runs are
\* the chapter's ids, the stars it computed and the totalStars it read.
IdleSubmit ==
  [pc |-> "idle", chapterId |-> None, childId |-> None, parentId |-> None, stars |-> 0,
   totalStars |-> 0]

\* A call of checkAndAwardBadges that is not running: what it holds while
\* it runs are earnedBadgeIds, the child's results, the
\* badges of allBadges not yet visited, the rows awardBadge selected and
\* newlyEarned.
IdleCheck ==
  [pc |-> "idle", childId |-> None, earnedBadgeIds |-> {}, results |-> <<>>, todo |-> <<>>,
   existing |-> 0, newlyEarned |-> <<>>]

\* The tables and the clock at server start.
InitData ==
  /\ submits = [slot \in 1..MaxSubmits |-> IdleSubmit]
  /\ childBadges = <<>>
  /\ checks = [slot \in 1..MaxChecks |-> IdleCheck]
  /\ chapters = [ch \in ChapterIds |-> NoRow]
  /\ chapterPhotos = [ch \in ChapterIds |-> 0]
  /\ run = [ch \in ChapterIds |-> IdleRun]
  /\ hits = [ip \in Clients |-> 0]
  /\ children = [c \in Children |-> [parentId |-> ChildParent(c), totalStars |-> 0]]
  /\ results = <<>>
  /\ learningSessions = <<>>
  /\ notifications = <<>>
  /\ now = 0
  /\ parentTokens = {}
  /\ childTokens = {}
  /\ cleared = {}

Init ==
  /\ keys \in SUBSET ApiKeys
  /\ InitData
  /\ calc = NoCalc

\* ----------------------------------------------------------------- storage

\* storage.createChapter: status defaults to "processing", content to NULL.
CreateChapterRow(data) ==
  [exists |-> TRUE, childId |-> data.childId, parentId |-> data.parentId,
   status |-> "processing", content |-> Null, writes |-> 1]

\* updateChapterStatus that writes the row and leaves its status.
UpdateChapterStatusKeeps(row, status) ==
  [row EXCEPT !.writes = @ + 1]

\* storage.updateChapterStatus
UpdateChapterStatus(row, status) ==
  [row EXCEPT !.status = status, !.writes = @ + 1]

\* updateChapterContent that sets the content and leaves the status.
UpdateChapterContentOnly(row, content) ==
  [row EXCEPT !.content = content, !.writes = @ + 1]

\* storage.updateChapterContent
UpdateChapterContent(row, content) ==
  [row EXCEPT !.content = content, !.status = "ready", !.writes = @ + 1]

\* gen_random_uuid(): an id no row has.
FreeIds == {ch \in ChapterIds : ~chapters[ch].exists}

\* ------------------------------------------------------------------ sessions

\* What requireParentSession leaves in req.authenticatedParentId: the parent
\* of a valid parent cookie, or None (the request is answered 401).
ParentSessions == Parents \cup {None}

\* What requireChildAccess leaves in req.authenticatedChildId and
\* req.authenticatedParentId: a child session, a parent session, or neither
\* (the request is answered 401).
ChildSession(c) == [childId |-> c, parentId |-> None]
ParentSession(p) == [childId |-> None, parentId |-> p]
NoSession == [childId |-> None, parentId |-> None]
AccessContexts ==
  {ChildSession(c) : c \in Children} \cup {ParentSession(p) : p \in Parents} \cup {NoSession}

\* ---------------------------------------------------------- credentials

\* No cookie of a name.
NoCookie == [role |-> "none"]

\* What setParentCookie and setChildCookie sign.
ParentToken(p, t) == [role |-> "parent", userId |-> p, issuedAt |-> t, signed |-> TRUE]
ChildToken(c, p, t) ==
  [role |-> "child", childId |-> c, parentId |-> p, issuedAt |-> t, signed |-> TRUE]

\* Tokens the server never signed.
ForgedParentTokens == {[ParentToken(p, now) EXCEPT !.signed = FALSE] : p \in Parents}
ForgedChildTokens ==
  {[ChildToken(c, ChildParent(c), now) EXCEPT !.signed = FALSE] : c \in Children}

\* req.cookies: any token issued so far, a forged one, or none.
Jars ==
  [parentToken : parentTokens \cup ForgedParentTokens \cup {NoCookie},
   childToken : childTokens \cup ForgedChildTokens \cup {NoCookie}]

\* verifyParentToken / verifyChildToken return (TRUE) or throw (FALSE).
VerifyParentToken(tok) ==
  tok.role = "parent" /\ tok.signed /\ now < tok.issuedAt + ParentExpiryDays

VerifyChildToken(tok) ==
  tok.role = "child" /\ tok.signed /\ now < tok.issuedAt + ChildExpiryDays

\* requireParentSession: req.authenticatedParentId, None with 401.
RequireParentSession(jar) ==
  IF VerifyParentToken(jar.parentToken) THEN jar.parentToken.userId ELSE None

\* requireChildAccess: the contexts it can leave. A valid child token
\* decides; with none, a valid parent token; a child token that fails
\* verification is refused, or passed over for the parent token.
RequireChildAccess(jar) ==
  LET byParent == IF VerifyParentToken(jar.parentToken)
                  THEN ParentSession(jar.parentToken.userId) ELSE NoSession
  IN IF VerifyChildToken(jar.childToken) THEN {ChildSession(jar.childToken.childId)}
     ELSE IF jar.childToken = NoCookie THEN {byParent}
     ELSE {NoSession, byParent}

\* ------------------------------------------------- POST /api/auth/login

\* The password matches (ok): setParentCookie(res, user.id, user.email).
ParentLogin(p, ok) ==
  /\ Cardinality(parentTokens) < MaxTokens
  /\ parentTokens' = IF ok THEN parentTokens \cup {ParentToken(p, now)} ELSE parentTokens
  /\ UNCHANGED <<flightVars, keys, chapters, chapterPhotos, run, hits, children, results,
                 learningSessions, notifications, now, childTokens, cleared, calc>>

\* ------------------------------------------------- POST /api/child/login

\* Request bodies: childId may be missing or name no child; parentId is a
\* field the handler does not read.
UnknownChild == "c9"
ChildLoginBodies == [childId : Children \cup {None, UnknownChild}, parentId : Parents]

\* POST /api/child/login that decodes the parent token without verifying it.
ChildLoginStatusDecodeOnly(jar, body) ==
  IF body.childId = None THEN 400
  ELSE IF jar.parentToken = NoCookie THEN 401
  ELSE IF body.childId \notin Children
          \/ children[body.childId].parentId # jar.parentToken.userId THEN 403
  ELSE 200

\* POST /api/child/login that only looks the child up.
ChildLoginStatusAnyChild(jar, body) ==
  IF body.childId = None THEN 400
  ELSE IF jar.parentToken = NoCookie THEN 401
  ELSE IF ~VerifyParentToken(jar.parentToken) THEN 401
  ELSE IF body.childId \notin Children THEN 403
  ELSE 200

\* The status code of POST /api/child/login.
ChildLoginStatus(jar, body) ==
  IF body.childId = None THEN 400
  ELSE IF jar.parentToken = NoCookie THEN 401
  ELSE IF ~VerifyParentToken(jar.parentToken) THEN 401
  ELSE IF body.childId \notin Children
          \/ children[body.childId].parentId # jar.parentToken.userId THEN 403
  ELSE 200

\* setChildCookie(res, childId, parentId) with the decoded parent id.
ChildLogin(jar, body) ==
  IF ChildLoginStatus(jar, body) # 200 THEN UNCHANGED vars
  ELSE /\ Cardinality(childTokens) < MaxTokens
       /\ childTokens' = childTokens \cup {ChildToken(body.childId, jar.parentToken.userId, now)}
       /\ UNCHANGED <<flightVars, keys, chapters, chapterPhotos, run, hits, children, results,
                      learningSessions, notifications, now, parentTokens, cleared, calc>>

\* A day passes.
Tick ==
  /\ now < MaxDays
  /\ now' = now + 1
  /\ UNCHANGED <<flightVars, keys, chapters, chapterPhotos, run, hits, children, results,
                 learningSessions, notifications, parentTokens, childTokens, cleared, calc>>

\* ------------------------- POST /api/auth/logout, POST /api/child/logout

\* A logout that takes the token of the request out of the issued ones.
ParentLogoutRevokes(jar) == parentTokens \ {jar.parentToken}

\* The issued parent tokens after POST /api/auth/logout: the handler calls
\* clearParentCookie(res) and never reads the request.
ParentLogoutTokens(jar) == parentTokens

\* The issued child tokens after POST /api/child/logout.
ChildLogoutTokens(jar) == childTokens

\* The response clears the cookie: the browser drops the token it sent.
ParentLogout(jar) ==
  /\ parentTokens' = ParentLogoutTokens(jar)
  /\ cleared' = cleared \cup ({jar.parentToken} \cap parentTokens)
  /\ UNCHANGED <<flightVars, keys, chapters, chapterPhotos, run, hits, children, results,
                 learningSessions, notifications, now, childTokens, calc>>

ChildLogout(jar) ==
  /\ childTokens' = ChildLogoutTokens(jar)
  /\ cleared' = cleared \cup ({jar.childToken} \cap childTokens)
  /\ UNCHANGED <<flightVars, keys, chapters, chapterPhotos, run, hits, children, results,
                 learningSessions, notifications, now, parentTokens, calc>>

\* A request passes requireParentSession or is answered 401.
ParentGate(jar) ==
  /\ RequireParentSession(jar) \in ParentSessions
  /\ UNCHANGED vars

\* A request passes requireChildAccess or is answered 401.
ChildGate(jar) ==
  /\ RequireChildAccess(jar) \subseteq AccessContexts
  /\ UNCHANGED vars

\* ---------------------------------------------------- POST /api/chapters

\* Request bodies: valid says whether createChapterSchema.parse accepts it.
ChapterBodies ==
  [valid : BOOLEAN, parentId : Parents, childId : Children,
   photos : SeqsUpTo({"dataurl", "plain"}, 1)]

\* aiLimiter that refuses one request late.
LimiterRefusesLate(ip) == hits[ip] > AiLimiterMax

\* aiLimiter: the request is counted, then refused if the count exceeds max.
LimiterRefuses(ip) == hits[ip] + 1 > AiLimiterMax

\* The status code of POST /api/chapters.
CreateChapterStatus(sess, ip, body) ==
  IF sess = None THEN 401
  ELSE IF LimiterRefuses(ip) THEN 429
  ELSE IF ~body.valid THEN 400
  ELSE IF body.parentId # sess THEN 403
  ELSE 200

CreateChapter(sess, ip, body) ==
  LET code == CreateChapterStatus(sess, ip, body)
  IN /\ hits' = IF code = 401 THEN hits ELSE [hits EXCEPT ![ip] = @ + 1]
     /\ IF code = 200
        THEN \E ch \in FreeIds :
               /\ chapters' = [chapters EXCEPT ![ch] = CreateChapterRow(body)]
               /\ chapterPhotos' = [chapterPhotos EXCEPT ![ch] = Len(body.photos)]
               /\ run' = [run EXCEPT ![ch] = StartRun(body.photos, keys)]
        ELSE UNCHANGED <<chapters, chapterPhotos, run>>
     /\ UNCHANGED <<authVars, flightVars, calc, keys, children, results, learningSessions, notifications>>

\* The limiter's window (one hour) ends for a client.
WindowElapses(ip) ==
  /\ hits[ip] > 0
  /\ hits' = [hits EXCEPT ![ip] = 0]
  /\ UNCHANGED <<authVars, flightVars, calc, keys, chapters, chapterPhotos, run, children, results, learningSessions,
                 notifications>>

\* ------------------------------------------- the background task's steps

GenerateReturns(ch, g) ==
  /\ run[ch].pc = "generating"
  /\ run' = [run EXCEPT ![ch] = AfterGenerate(@, g, keys)]
  /\ UNCHANGED <<authVars, flightVars, calc, keys, chapters, chapterPhotos, hits, children, results, learningSessions,
                 notifications>>

VerifyReturns(ch, o) ==
  /\ run[ch].pc = "verifying"
  /\ run' = [run EXCEPT ![ch] = AfterVerify(@, o, keys)]
  /\ UNCHANGED <<authVars, flightVars, calc, keys, chapters, chapterPhotos, hits, children, results, learningSessions,
                 notifications>>

RepairReturns(ch, o) ==
  /\ run[ch].pc = "repairing"
  /\ run' = [run EXCEPT ![ch] = AfterFix(@, o, keys)]
  /\ UNCHANGED <<authVars, flightVars, calc, keys, chapters, chapterPhotos, hits, children, results, learningSessions,
                 notifications>>

ReverifyReturns(ch, o) ==
  /\ run[ch].pc = "reverifying"
  /\ run' = [run EXCEPT ![ch] = AfterReverify(@, o)]
  /\ UNCHANGED <<authVars, flightVars, calc, keys, chapters, chapterPhotos, hits, children, results, learningSessions,
                 notifications>>

\* processChapterInBackground: updateChapterContent after the run returned,
\* updateChapterStatus(chapterId, "error") in the catch.
FinishBackground(ch) ==
  /\ run[ch].pc \in {"returned", "threw"}
  /\ IF run[ch].pc = "returned"
     THEN /\ chapters' = [chapters EXCEPT ![ch] = UpdateChapterContent(@, run[ch].content)]
          /\ run' = [run EXCEPT ![ch].pc = "done"]
     ELSE /\ chapters' = [chapters EXCEPT ![ch] = UpdateChapterStatus(@, "error")]
          /\ run' = [run EXCEPT ![ch].pc = "failed"]
  /\ UNCHANGED <<authVars, flightVars, calc, keys, chapterPhotos, hits, children, results, learningSessions,
                 notifications>>

\* --------------------------------------------------- GET /api/chapters/:id

\* The response: the status code and, with 200, the row.
GetChapterResponse(ctx, ch) ==
  LET chapter == chapters[ch]
      refused(code) == [code |-> code, status |-> None, content |-> Null]
  IN IF ctx = NoSession THEN refused(401)
     ELSE IF ~chapter.exists THEN refused(404)
     ELSE IF ctx.childId # None /\ chapter.childId # ctx.childId THEN refused(403)
     ELSE IF ctx.parentId # None /\ chapter.parentId # ctx.parentId THEN refused(403)
     ELSE [code |-> 200, status |-> chapter.status, content |-> chapter.content]

GetChapter(ctx, ch) ==
  /\ GetChapterResponse(ctx, ch).code \in {200, 401, 403, 404}
  /\ UNCHANGED vars

\* ------------------------------------------- POST /api/chapters/:id/submit

\* calculateStars with strict thresholds.
CalculateStarsStrict(score, total) ==
  IF 100 * score > 90 * total THEN 5
  ELSE IF 100 * score > 80 * total THEN 4
  ELSE IF 100 * score > 70 * total THEN 3
  ELSE IF 100 * score > 60 * total THEN 2
  ELSE 1

\* calculateStars for score >= 0 and total >= 0: percentage = (score / total)
\* * 100 compared with 90, 80, 70, 60. With total = 0 the percentage is NaN
\* for score 0 (every comparison false) and Infinity otherwise.
CalculateStars(score, total) ==
  IF total = 0 THEN (IF score > 0 THEN 5 ELSE 1)
  ELSE IF 100 * score >= 90 * total THEN 5
  ELSE IF 100 * score >= 80 * total THEN 4
  ELSE IF 100 * score >= 70 * total THEN 3
  ELSE IF 100 * score >= 60 * total THEN 2
  ELSE 1

\* A comparison of answers that takes an answer at a position with no
\* question as right.
CountCorrectOrMissing(answers, questions) ==
  Cardinality({i \in 1..Len(answers) :
                 i > Len(questions) \/ questions[i].correct = answers[i]})

\* The answers that equal questions[index]?.correct.
CountCorrect(answers, questions) ==
  Cardinality({i \in 1..Len(answers) :
                 i <= Len(questions) /\ questions[i].correct = answers[i]})

\* calculateScores
CalculateScores(practiceAnswers, testAnswers, practiceQuestions, testQuestions) ==
  LET practiceScore == CountCorrect(practiceAnswers, practiceQuestions)
      testScore == CountCorrect(testAnswers, testQuestions)
  IN [practiceScore |-> practiceScore, testScore |-> testScore,
      totalScore |-> practiceScore + testScore,
      stars |-> CalculateStars(practiceScore + testScore, TotalQuestions)]

AnswerLists == SeqsUpTo({"A", "B"}, MaxAnswers)

\* Request bodies: valid says whether submitAnswersSchema.parse accepts it.
SubmitBodies == [valid : BOOLEAN, practiceAnswers : AnswerLists, testAnswers : AnswerLists]

\* practiceQuestions[index] with content.practice undefined (and the same
\* for test): a TypeError, answered 400 by the catch.
ScoringThrows(content, body) ==
  /\ ~content.hasArrays
  /\ (Len(body.practiceAnswers) > 0 \/ Len(body.testAnswers) > 0)

\* The status code of POST /api/chapters/:id/submit.
SubmitStatus(ctx, ch, body) ==
  LET chapter == chapters[ch]
  IN IF ctx = NoSession THEN 401
     ELSE IF ~body.valid THEN 400
     ELSE IF ~chapter.exists \/ chapter.content = Null THEN 404
     ELSE IF ctx.childId = None \/ chapter.childId # ctx.childId THEN 403
     ELSE IF ScoringThrows(chapter.content, body) THEN 400
     ELSE 200

Submit(ctx, ch, body) ==
  IF SubmitStatus(ctx, ch, body) # 200 THEN UNCHANGED vars
  ELSE LET chapter == chapters[ch]
           scores == CalculateScores(body.practiceAnswers, body.testAnswers,
                                     chapter.content.practice, chapter.content.test)
       IN /\ Len(results) < MaxResults
          /\ results' = Append(results,
                               [chapterId |-> ch, childId |-> chapter.childId,
                                practiceScore |-> scores.practiceScore,
                                testScore |-> scores.testScore,
                                totalScore |-> scores.totalScore, stars |-> scores.stars])
          /\ chapters' = [chapters EXCEPT ![ch] = UpdateChapterStatus(@, "completed")]
          /\ children' = [children EXCEPT ![chapter.childId].totalStars = @ + scores.stars]
          /\ notifications' = Append(notifications,
                                     [userId |-> chapter.parentId, type |-> "chapter_complete",
                                      childId |-> chapter.childId, chapterId |-> ch,
                                      read |-> FALSE])
          /\ UNCHANGED <<authVars, flightVars, calc, keys, chapterPhotos, run, hits, learningSessions>>

\* The same handler between its awaits, for requests that run at once.

\* updateChildStars(child.id, (child.totalStars || 0) + stars) with the
\* child the handler read.
UpdateChildStars(slot) ==
  [children EXCEPT ![submits[slot].childId].totalStars =
                     submits[slot].totalStars + submits[slot].stars]

\* Up to updateChapterStatus: the result row and the status "completed".
SubmitStore(slot, ctx, ch, body) ==
  /\ submits[slot].pc = "idle"
  /\ SubmitStatus(ctx, ch, body) = 200
  /\ Len(results) < MaxSubmits
  /\ LET chapter == chapters[ch]
         scores == CalculateScores(body.practiceAnswers, body.testAnswers,
                                   chapter.content.practice, chapter.content.test)
     IN /\ results' = Append(results,
                             [chapterId |-> ch, childId |-> chapter.childId,
                              practiceScore |-> scores.practiceScore,
                              testScore |-> scores.testScore,
                              totalScore |-> scores.totalScore, stars |-> scores.stars])
        /\ chapters' = [chapters EXCEPT ![ch] = UpdateChapterStatus(@, "completed")]
        /\ submits' = [submits EXCEPT ![slot] =
                         [IdleSubmit EXCEPT !.pc = "stored", !.chapterId = ch,
                                            !.childId = chapter.childId,
                                            !.parentId = chapter.parentId,
                                            !.stars = scores.stars]]
  /\ UNCHANGED <<authVars, childBadges, checks, calc, keys, chapterPhotos, run, hits, children,
                 learningSessions, notifications>>

\* const child = await storage.getChildById(chapter.childId)
SubmitReadChild(slot) ==
  /\ submits[slot].pc = "stored"
  /\ submits' = [submits EXCEPT ![slot].pc = "read",
                                ![slot].totalStars = children[submits[slot].childId].totalStars]
  /\ UNCHANGED <<authVars, childBadges, checks, calc, keys, chapters, chapterPhotos, run, hits,
                 children, results, learningSessions, notifications>>

\* await storage.updateChildStars(...)
SubmitWriteStars(slot) ==
  /\ submits[slot].pc = "read"
  /\ children' = UpdateChildStars(slot)
  /\ submits' = [submits EXCEPT ![slot].pc = "written"]
  /\ UNCHANGED <<authVars, childBadges, checks, calc, keys, chapters, chapterPhotos, run, hits,
                 results, learningSessions, notifications>>

\* createNotification and the response.
SubmitNotify(slot) ==
  /\ submits[slot].pc = "written"
  /\ notifications' = Append(notifications,
                             [userId |-> submits[slot].parentId, type |-> "chapter_complete",
                              childId |-> submits[slot].childId,
                              chapterId |-> submits[slot].chapterId, read |-> FALSE])
  /\ submits' = [submits EXCEPT ![slot] = IdleSubmit]
  /\ UNCHANGED <<authVars, childBadges, checks, calc, keys, chapters, chapterPhotos, run, hits,
                 children, results, learningSessions>>

\* --------------------------------------------------------- /api/sessions

Stages == {"learn", "practice", "test"}

\* Request bodies: valid says whether startSessionSchema.parse accepts it.
StartBodies == [valid : BOOLEAN, childId : Children, chapterId : ChapterIds, stage : Stages]

\* POST /api/sessions/start that takes the child of the body.
StartSessionStatusTrustsBody(ctx, body) ==
  LET chapter == chapters[body.chapterId]
  IN IF ctx = NoSession THEN 401
     ELSE IF ~body.valid THEN 400
     ELSE IF ~chapter.exists \/ chapter.childId # body.childId THEN 403
     ELSE 200

\* POST /api/sessions/start that does not look the chapter up.
StartSessionStatusAnyChapter(ctx, body) ==
  IF ctx = NoSession THEN 401
  ELSE IF ~body.valid THEN 400
  ELSE IF ctx.childId # None /\ body.childId # ctx.childId THEN 403
  ELSE IF ctx.childId = None /\ children[body.childId].parentId # ctx.parentId THEN 403
  ELSE 200

\* The status code of POST /api/sessions/start.
StartSessionStatus(ctx, body) ==
  LET chapter == chapters[body.chapterId]
  IN IF ctx = NoSession THEN 401
     ELSE IF ~body.valid THEN 400
     ELSE IF ctx.childId # None /\ body.childId # ctx.childId THEN 403
     ELSE IF ctx.childId = None /\ children[body.childId].parentId # ctx.parentId THEN 403
     ELSE IF ~chapter.exists \/ chapter.childId # body.childId THEN 403
     ELSE 200

StartSession(ctx, body) ==
  IF StartSessionStatus(ctx, body) # 200 THEN UNCHANGED vars
  ELSE /\ Len(learningSessions) < MaxSessions
       /\ learningSessions' = Append(learningSessions,
                                     [childId |-> body.childId, chapterId |-> body.chapterId,
                                      stage |-> body.stage, ended |-> FALSE,
                                      durationSeconds |-> 0])
       /\ UNCHANGED <<authVars, flightVars, calc, keys, chapters, chapterPhotos, run, hits, children, results,
                      notifications>>

Durations == {0, 1}

\* Request bodies: valid says whether endSessionSchema.parse accepts it.
EndBodies == [valid : BOOLEAN, durationSeconds : Durations]

\* The status code of POST /api/sessions/:id/end; id is the row's place in
\* the table.
EndSessionStatus(ctx, id, body) ==
  IF ctx = NoSession THEN 401
  ELSE IF ~body.valid THEN 400
  ELSE IF id > Len(learningSessions) THEN 404
  ELSE IF ctx.childId # None /\ learningSessions[id].childId # ctx.childId THEN 403
  ELSE IF ctx.childId = None /\ children[learningSessions[id].childId].parentId # ctx.parentId
       THEN 403
  ELSE 200

EndSession(ctx, id, body) ==
  IF EndSessionStatus(ctx, id, body) # 200 THEN UNCHANGED vars
  ELSE /\ learningSessions' = [learningSessions EXCEPT ![id].ended = TRUE,
                                 ![id].durationSeconds = body.durationSeconds]
       /\ UNCHANGED <<authVars, flightVars, calc, keys, chapters, chapterPhotos, run, hits, children, results,
                      notifications>>

\* ------------------------------------------------------- result routes

\* storage.getResultByChapter: the place of a row of the chapter, 0 for
\* none.
ResultByChapter(ch) ==
  LET ids == {i \in 1..Len(results) : results[i].chapterId = ch}
  IN IF ids = {} THEN 0 ELSE Min(ids)

\* GET /api/chapters/:id/result that looks the result up before it checks
\* whose chapter it is.
GetChapterResultStatusResultFirst(ctx, ch) ==
  IF ctx = NoSession THEN 401
  ELSE IF ~chapters[ch].exists THEN 404
  ELSE IF ResultByChapter(ch) # 0 THEN 200
  ELSE 404

\* The status code of GET /api/chapters/:id/result.
GetChapterResultStatus(ctx, ch) ==
  LET chapter == chapters[ch]
  IN IF ctx = NoSession THEN 401
     ELSE IF ~chapter.exists THEN 404
     ELSE IF ctx.childId # None /\ chapter.childId # ctx.childId THEN 403
     ELSE IF ctx.parentId # None /\ chapter.parentId # ctx.parentId THEN 403
     ELSE IF ResultByChapter(ch) = 0 THEN 404
     ELSE 200

GetChapterResult(ctx, ch) ==
  /\ GetChapterResultStatus(ctx, ch) \in {200, 401, 403, 404}
  /\ UNCHANGED vars

\* The status code of GET /api/results/:id; id is the row's place in the
\* table.
GetResultStatus(ctx, id) ==
  IF ctx = NoSession THEN 401
  ELSE IF id > Len(results) THEN 404
  ELSE IF ctx.childId # None /\ results[id].childId # ctx.childId THEN 403
  ELSE IF /\ ctx.parentId # None
          /\ ctx.childId = None
          /\ (~chapters[results[id].chapterId].exists
              \/ chapters[results[id].chapterId].parentId # ctx.parentId)
       THEN 403
  ELSE 200

GetResult(ctx, id) ==
  /\ GetResultStatus(ctx, id) \in {200, 401, 403, 404}
  /\ UNCHANGED vars

\* ------------------------------------------------------ parent-only routes

\* storage.getChildrenByParent, getChaptersByParent, getNotificationsByUser:
\* the rows as (table, key) pairs.
ChildrenByParent(p) == {<<"child", c>> : c \in {c \in DOMAIN children : children[c].parentId = p}}
ChaptersByParent(p) ==
  {<<"chapter", ch>> : ch \in {ch \in ChapterIds : chapters[ch].exists /\ chapters[ch].parentId = p}}
NotificationsByUser(p) ==
  {<<"notification", i>> : i \in {i \in 1..Len(notifications) : notifications[i].userId = p}}

\* The parent a row belongs to.
RowParent(row) ==
  IF row[1] = "child" THEN children[row[2]].parentId
  ELSE IF row[1] = "chapter" THEN chapters[row[2]].parentId
  ELSE notifications[row[2]].userId

\* The GET routes behind requireParentSession; each has a parent or user id
\* in its path or none.
ParentReads ==
  {"children", "chapters", "analytics", "leaderboard", "notifications", "unread-count",
   "notification-preferences"}

\* The rows a storage query by parentId reads for a route.
ParentQuery(route, parentId) ==
  IF route \in {"children", "leaderboard"} THEN ChildrenByParent(parentId)
  ELSE IF route = "analytics" THEN ChildrenByParent(parentId)
  ELSE IF route = "chapters" THEN ChaptersByParent(parentId)
  ELSE IF route \in {"notifications", "unread-count"} THEN NotificationsByUser(parentId)
  ELSE {}

\* A parent-only GET route that queries with the id of its path.
ParentReadResponseByPath(route, sess, claimed) ==
  IF sess = None THEN [code |-> 401, rows |-> {}]
  ELSE [code |-> 200, rows |-> ParentQuery(route, claimed)]

\* The response of a parent-only GET route: the handler queries with
\* req.authenticatedParentId.
ParentReadResponse(route, sess, claimed) ==
  IF sess = None THEN [code |-> 401, rows |-> {}]
  ELSE [code |-> 200, rows |-> ParentQuery(route, sess)]

ParentRead(route, sess, claimed) ==
  /\ ParentReadResponse(route, sess, claimed).code \in {200, 401}
  /\ UNCHANGED vars

\* gen_random_uuid() for a children row.
NewChildIds == {"c3"}

\* Request bodies of POST /api/children: valid says whether
\* insertChildSchema.parse accepts it.
CreateChildBodies == [valid : BOOLEAN, parentId : Parents]

\* The status code of POST /api/children.
CreateChildStatus(sess, body) ==
  IF sess = None THEN 401
  ELSE IF ~body.valid THEN 400
  ELSE IF body.parentId # sess THEN 403
  ELSE 200

CreateChild(sess, body) ==
  IF CreateChildStatus(sess, body) # 200 THEN UNCHANGED vars
  ELSE \E c \in NewChildIds \ DOMAIN children :
         /\ children' = [x \in DOMAIN children \cup {c} |->
                           IF x = c THEN [parentId |-> body.parentId, totalStars |-> 0]
                           ELSE children[x]]
         /\ UNCHANGED <<authVars, flightVars, calc, keys, chapters, chapterPhotos, run, hits, results,
                        learningSessions, notifications>>

\* The status code of PATCH /api/notifications/:id/read; id is the row's
\* place in the table.
MarkReadStatus(sess, id) ==
  IF sess = None THEN 401
  ELSE IF id > Len(notifications) \/ notifications[id].userId # sess THEN 403
  ELSE 200

MarkNotificationRead(sess, id) ==
  IF MarkReadStatus(sess, id) # 200 THEN UNCHANGED vars
  ELSE /\ notifications' = [notifications EXCEPT ![id].read = TRUE]
       /\ UNCHANGED <<authVars, flightVars, calc, keys, chapters, chapterPhotos, run, hits, children,
                      results, learningSessions>>

\* storage.markAllNotificationsRead
MarkAllNotificationsReadRows(userId) ==
  [i \in 1..Len(notifications) |->
     IF notifications[i].userId = userId THEN [notifications[i] EXCEPT !.read = TRUE]
     ELSE notifications[i]]

\* The table after PATCH /api/users/:userId/notifications/read-all.
MarkAllReadRows(sess, claimed) ==
  IF sess = None THEN notifications ELSE MarkAllNotificationsReadRows(sess)

MarkAllRead(sess, claimed) ==
  /\ notifications' = MarkAllReadRows(sess, claimed)
  /\ UNCHANGED <<authVars, flightVars, calc, keys, chapters, chapterPhotos, run, hits, children,
                 results, learningSessions>>

\* ---------------------------------------- routes with a child id in the path

\* GET /api/children/:id, /:childId/chapters, /:childId/results,
\* /api/analytics/child/:childId, /api/children/:id/badges and POST
\* /api/children/:id/check-badges.
ChildRoutes == {"child", "chapters", "results", "analytics", "badges", "check-badges"}

\* requireChildAccess on these routes: 401 without a session, 403 for a
\* child session that names another child and for a parent session that
\* names a child of another parent (or no child), 0 to go on.
GateChildAccess(ctx, claimed) ==
  IF ctx = NoSession THEN 401
  ELSE IF ctx.childId # None THEN (IF claimed # ctx.childId THEN 403 ELSE 0)
  ELSE IF claimed \notin DOMAIN children \/ children[claimed].parentId # ctx.parentId THEN 403
  ELSE 0

\* The handlers: childId = req.authenticatedChildId || req.params.id; three
\* of them look the child up and answer 404.
ChildRouteResponse(route, ctx, claimed) ==
  LET gate == GateChildAccess(ctx, claimed)
      childId == IF ctx.childId # None THEN ctx.childId ELSE claimed
  IN IF gate # 0 THEN [code |-> gate, childId |-> None]
     ELSE IF route \in {"child", "badges", "check-badges"} /\ childId \notin DOMAIN children
          THEN [code |-> 404, childId |-> None]
     ELSE [code |-> 200, childId |-> childId]

ChildRoute(route, ctx, claimed) ==
  /\ ChildRouteResponse(route, ctx, claimed).code \in {200, 401, 403, 404}
  /\ UNCHANGED vars

\* ------------------------------- POST /api/children/:id/check-badges

\* The badges table in seed order. Of badgeDefinitions the two are kept
\* that a child can earn with one result: First Steps (first_chapter,
\* requirement 1) and Perfect Score (perfect_score).
AllBadges == <<"first_steps", "perfect_score">>

\* The child_badges rows of a child and a badge.
BadgeRows(c, badge) ==
  {i \in 1..Len(childBadges) : childBadges[i] = [childId |-> c, badgeId |-> badge]}

\* getResultsByChild
ResultsByChild(c) == SelectSeq(results, LAMBDA r : r.childId = c)

\* The switch on badge.type, on what the call read.
BadgeEarned(check, badge) ==
  IF badge = "first_steps" THEN Len(check.results) >= FirstStepsRequirement
  ELSE \E i \in 1..Len(check.results) : check.results[i].totalScore = PerfectTotalScore

\* The loop up to its next await: the badges not yet visited, from the
\* first one that is not in earnedBadgeIds and is earned.
RECURSIVE SkipToAward(_, _)
SkipToAward(check, todo) ==
  IF todo = <<>> THEN <<>>
  ELSE IF Head(todo) \notin check.earnedBadgeIds /\ BadgeEarned(check, Head(todo)) THEN todo
  ELSE SkipToAward(check, Tail(todo))

\* Where the call is after the loop ran up to its next await.
AtNextAward(check, todo) ==
  LET rest == SkipToAward(check, todo)
  IN [check EXCEPT !.todo = rest, !.pc = IF rest = <<>> THEN "returned" ELSE "award"]

\* The route's handler up to the loop: getAllBadges, getChildBadges,
\* getChildById, getResultsByChild.
CheckBadgesBegin(slot, ctx, claimed) ==
  /\ checks[slot].pc = "idle"
  /\ ChildRouteResponse("check-badges", ctx, claimed).code = 200
  /\ LET c == ChildRouteResponse("check-badges", ctx, claimed).childId
         read == [IdleCheck EXCEPT !.childId = c,
                                   !.earnedBadgeIds =
                                     {childBadges[i].badgeId :
                                        i \in {j \in 1..Len(childBadges) :
                                                 childBadges[j].childId = c}},
                                   !.results = ResultsByChild(c)]
     IN checks' = [checks EXCEPT ![slot] = AtNextAward(read, AllBadges)]
  /\ UNCHANGED <<authVars, submits, childBadges, calc, keys, chapters, chapterPhotos, run, hits,
                 children, results, learningSessions, notifications>>

\* awardBadge: the select of the rows of the child and the badge.
AwardSelect(slot) ==
  /\ checks[slot].pc = "award"
  /\ checks' = [checks EXCEPT ![slot].pc = "insert",
                              ![slot].existing =
                                Cardinality(BadgeRows(checks[slot].childId,
                                                      Head(checks[slot].todo)))]
  /\ UNCHANGED <<authVars, submits, childBadges, calc, keys, chapters, chapterPhotos, run, hits,
                 children, results, learningSessions, notifications>>

\* awardBadge: the insert unless the select found a row; then
\* newlyEarned.push(badge), whatever awardBadge returned, and the loop.
AwardInsert(slot) ==
  /\ checks[slot].pc = "insert"
  /\ LET check == checks[slot]
         badge == Head(check.todo)
         pushed == [check EXCEPT !.newlyEarned = Append(@, badge), !.existing = 0]
     IN /\ childBadges' = IF check.existing > 0 THEN childBadges
                          ELSE Append(childBadges, [childId |-> check.childId, badgeId |-> badge])
        /\ checks' = [checks EXCEPT ![slot] = AtNextAward(pushed, Tail(check.todo))]
  /\ UNCHANGED <<authVars, submits, calc, keys, chapters, chapterPhotos, run, hits,
                 children, results, learningSessions, notifications>>

\* ------------------------------ POST /api/sample-chapters/:sampleId/assign

\* The seeded sample_chapters rows, and an id that names none.
SampleIds == {"s1"}
UnknownSample == "s9"

\* The content of a seeded sample: five practice and ten test questions.
SampleContent == ContentWith(PracticeItems, TestItems)

\* Request bodies: valid says whether assignSampleChapterSchema.parse
\* accepts it.
AssignBodies == [valid : BOOLEAN, childId : Children \cup {UnknownChild}, parentId : Parents]

\* The status code. The route has no session gate: sess, what
\* requireParentSession would leave for the caller's cookies, is not read.
AssignSampleStatus(sess, sampleId, body) ==
  IF ~body.valid THEN 400
  ELSE IF sampleId \notin SampleIds THEN 404
  ELSE IF body.childId \notin DOMAIN children
          \/ children[body.childId].parentId # body.parentId THEN 403
  ELSE 200

\* storage.assignSampleChapterToChild: a row with the sample's content and
\* status "ready".
AssignedRow(body) ==
  [exists |-> TRUE, childId |-> body.childId, parentId |-> body.parentId,
   status |-> "ready", content |-> SampleContent, writes |-> 1]

AssignSample(sess, sampleId, body) ==
  IF AssignSampleStatus(sess, sampleId, body) # 200 THEN UNCHANGED vars
  ELSE /\ \E ch \in FreeIds : chapters' = [chapters EXCEPT ![ch] = AssignedRow(body)]
       /\ UNCHANGED <<authVars, flightVars, calc, keys, chapterPhotos, run, hits, children, results,
                      learningSessions, notifications>>

\* ------------------------------------------------------------ specifications

\* The pipeline: every reply of every capability, with any set of API keys
\* configured; the chapters of one parent and one child.
PipelineBodies == {b \in ChapterBodies : b.childId = "c1" /\ Len(b.photos) = 1}

Next ==
  \/ \E sess \in {"p1", None}, ip \in Clients, body \in PipelineBodies :
       hits[ip] < MaxRequests /\ CreateChapter(sess, ip, body)
  \/ \E ip \in Clients : WindowElapses(ip)
  \/ \E ch \in ChapterIds, g \in GenerateOutcomes : GenerateReturns(ch, g)
  \/ \E ch \in ChapterIds, o \in VerifyOutcomes : VerifyReturns(ch, o)
  \/ \E ch \in ChapterIds, o \in FixOutcomes : RepairReturns(ch, o)
  \/ \E ch \in ChapterIds, o \in VerifyOutcomes : ReverifyReturns(ch, o)
  \/ \E ch \in ChapterIds : FinishBackground(ch)
  \/ \E ctx \in AccessContexts, ch \in ChapterIds : GetChapter(ctx, ch)

Spec == Init /\ [][Next]_vars

\* The pipeline with its scheduling: an awaited call settles (it returns,
\* is rejected or times out, all of which are replies here), and the event
\* loop then runs the continuation of the background task.
Settles(ch) ==
  /\ WF_vars(\E g \in GenerateOutcomes : GenerateReturns(ch, g))
  /\ WF_vars(\E o \in VerifyOutcomes : VerifyReturns(ch, o))
  /\ WF_vars(\E o \in FixOutcomes : RepairReturns(ch, o))
  /\ WF_vars(\E o \in VerifyOutcomes : ReverifyReturns(ch, o))
  /\ WF_vars(FinishBackground(ch))

SpecLive == Init /\ [][Next]_vars /\ \A ch \in ChapterIds : Settles(ch)

\* The extraction alone: text.match(/\{[\s\S]*\}/) on one reply text.
MatchCalls ==
  {[fn |-> "match", at |-> "call", text |-> t] : t \in SeqsUpTo(ContentTokens, MaxLen)}

InitExtract ==
  /\ keys = ApiKeys
  /\ InitData
  /\ calc \in MatchCalls

\* jsonMatch[0], or <<>> for no match.
ReturnMatch ==
  /\ calc.fn = "match"
  /\ calc.at = "call"
  /\ calc' = [fn |-> calc.fn, at |-> "return", text |-> calc.text,
              result |-> RegexMatch(calc.text)]
  /\ UNCHANGED <<authVars, flightVars, keys, chapters, chapterPhotos, run, hits, children,
                 results, learningSessions, notifications>>

NextExtract == ReturnMatch

SpecExtract == InitExtract /\ [][NextExtract]_vars

\* The scoring functions alone: one call of calculateStars or of
\* calculateScores with drawn arguments, then its return.
ScoreAnswers == SeqsUpTo({"A", "B", "a"}, MaxScoreLen)

ScoreQuestions == SeqsUpTo({[correct |-> "A"], [correct |-> "B"]}, MaxScoreLen)

LowerCase(letter) ==
  IF letter = "A" THEN "a" ELSE IF letter = "B" THEN "b" ELSE IF letter = "C" THEN "c" ELSE "d"

\* A submission for a chapter of five practice and ten test questions: all
\* practice answers right, the first seven test answers right and the last
\* three the right letter in lower case.
ExamplePractice == [i \in 1..PracticeItems |-> QuestionAt(i).correct]

ExampleTest ==
  [i \in 1..TestItems |-> IF i <= 7 THEN QuestionAt(i).correct ELSE LowerCase(QuestionAt(i).correct)]

ExampleCall ==
  [fn |-> "calculateScores", at |-> "call",
   practiceAnswers |-> ExamplePractice, testAnswers |-> ExampleTest,
   practiceQuestions |-> Questions(PracticeItems), testQuestions |-> Questions(TestItems)]

StarsCalls ==
  {[fn |-> "calculateStars", at |-> "call", score |-> s, total |-> t] :
     s \in 0..MaxTotal, t \in 1..MaxTotal}

ScoresCalls ==
  {[fn |-> "calculateScores", at |-> "call", practiceAnswers |-> pa, testAnswers |-> ta,
    practiceQuestions |-> pq, testQuestions |-> tq] :
     pa \in ScoreAnswers, ta \in ScoreAnswers, pq \in ScoreQuestions, tq \in ScoreQuestions}

InitScoring ==
  /\ keys = ApiKeys
  /\ InitData
  /\ \/ calc \in StarsCalls
     \/ calc \in ScoresCalls
     \/ calc = ExampleCall

ReturnCalculateStars ==
  /\ calc.fn = "calculateStars"
  /\ calc.at = "call"
  /\ calc' = [fn |-> calc.fn, at |-> "return", score |-> calc.score, total |-> calc.total,
              result |-> CalculateStars(calc.score, calc.total)]
  /\ UNCHANGED <<authVars, flightVars, keys, chapters, chapterPhotos, run, hits, children, results,
                 learningSessions, notifications>>

ReturnCalculateScores ==
  /\ calc.fn = "calculateScores"
  /\ calc.at = "call"
  /\ calc' = [fn |-> calc.fn, at |-> "return",
              practiceAnswers |-> calc.practiceAnswers, testAnswers |-> calc.testAnswers,
              practiceQuestions |-> calc.practiceQuestions,
              testQuestions |-> calc.testQuestions,
              result |-> CalculateScores(calc.practiceAnswers, calc.testAnswers,
                                         calc.practiceQuestions, calc.testQuestions)]
  /\ UNCHANGED <<authVars, flightVars, keys, chapters, chapterPhotos, run, hits, children, results,
                 learningSessions, notifications>>

NextScoring ==
  \/ ReturnCalculateStars
  \/ ReturnCalculateScores

SpecScoring == InitScoring /\ [][NextScoring]_vars

\* The life of a chapter row: creation, the background task with one reply
\* of each kind that changes its course, polling, submission and learning
\* sessions, with every API key configured.
InitAllKeys == Init /\ keys = ApiKeys

LifecycleGenerate ==
  {GenerateResult(r) : r \in {ErrorReply, TextReply(<<"{", "Q", "}">>)}}

LifecycleVerify ==
  {[kind |-> VerifyKind(r), verdict |-> VerifyVerdict(r)] :
     r \in {TextReply(<<"{", "sP", "}">>), TextReply(<<"{", "sF", "}">>)}}

LifecycleFix ==
  {[kind |-> FixKind(r), parsed |-> FixParsed(r)] : r \in {ErrorReply}}

LifecycleContexts == {ChildSession("c1"), ChildSession("c2"), ParentSession("p1"), NoSession}

LifecycleSubmits == {b \in SubmitBodies : b.testAnswers = <<>>}

LifecycleStarts == {b \in StartBodies : b.stage = "learn"}

NextLifecycle ==
  \/ \E sess \in {"p1", None}, ip \in Clients, body \in PipelineBodies :
       hits[ip] < MaxRequests /\ CreateChapter(sess, ip, body)
  \/ \E ch \in ChapterIds, g \in LifecycleGenerate : GenerateReturns(ch, g)
  \/ \E ch \in ChapterIds, o \in LifecycleVerify : VerifyReturns(ch, o)
  \/ \E ch \in ChapterIds, o \in LifecycleFix : RepairReturns(ch, o)
  \/ \E ch \in ChapterIds, o \in LifecycleVerify : ReverifyReturns(ch, o)
  \/ \E ch \in ChapterIds : FinishBackground(ch)
  \/ \E ctx \in LifecycleContexts, ch \in ChapterIds : GetChapter(ctx, ch)
  \/ \E ctx \in LifecycleContexts, ch \in ChapterIds, body \in LifecycleSubmits :
       Submit(ctx, ch, body)
  \/ \E ctx \in LifecycleContexts, body \in LifecycleStarts : StartSession(ctx, body)
  \/ \E ctx \in LifecycleContexts, id \in 1..(MaxSessions + 1), body \in EndBodies :
       EndSession(ctx, id, body)

SpecLifecycle == InitAllKeys /\ [][NextLifecycle]_vars

\* The rate limiter: requests of every kind up to and past the threshold.
NextQuota ==
  \/ \E sess \in ParentSessions, ip \in Clients, body \in ChapterBodies :
       hits[ip] < MaxHits /\ CreateChapter(sess, ip, body)
  \/ \E ip \in Clients : WindowElapses(ip)
  \/ \E ch \in ChapterIds : GenerateReturns(ch, GenerateResult(ErrorReply))
  \/ \E ch \in ChapterIds : FinishBackground(ch)

SpecQuota == InitAllKeys /\ [][NextQuota]_vars

\* Sessions: logins, the clock and the two gates.
NextSession ==
  \/ \E p \in Parents, ok \in BOOLEAN : ParentLogin(p, ok)
  \/ \E jar \in Jars, body \in ChildLoginBodies : ChildLogin(jar, body)
  \/ Tick
  \/ \E jar \in Jars : ParentGate(jar)
  \/ \E jar \in Jars : ChildGate(jar)

SpecSession == InitAllKeys /\ [][NextSession]_vars

\* Logout: one parent and one child log in, log out and present their
\* tokens again as the days pass.
LogoutBodies == {b \in ChildLoginBodies : b.childId = "c1" /\ b.parentId = "p1"}

NextLogout ==
  \/ ParentLogin("p1", TRUE)
  \/ \E jar \in Jars, body \in LogoutBodies : ChildLogin(jar, body)
  \/ Tick
  \/ \E jar \in Jars : ParentGate(jar)
  \/ \E jar \in Jars : ChildGate(jar)
  \/ \E jar \in Jars : ParentLogout(jar)
  \/ \E jar \in Jars : ChildLogout(jar)

SpecLogout == InitAllKeys /\ [][NextLogout]_vars

\* Access: chapters of any parent for any child, read, submitted and
\* tracked by every caller; the pipeline's replies are well-formed.
AccessBodies == {b \in ChapterBodies : b.valid /\ b.photos = <<"dataurl">>}
AccessGenerate == {GenerateResult(TextReply(<<"{", "Q", "}">>))}
AccessVerify ==
  {[kind |-> VerifyKind(r), verdict |-> VerifyVerdict(r)] : r \in {TextReply(<<"{", "sP", "}">>)}}
AccessSubmits == {b \in SubmitBodies : b.valid /\ b.testAnswers = <<>>}
AccessStarts == {b \in StartBodies : b.valid /\ b.stage = "learn"}
AccessEnds == {b \in EndBodies : b.valid /\ b.durationSeconds = 1}
ClaimedChildren == Children \cup {UnknownChild}

NextAccess ==
  \/ \E sess \in ParentSessions, ip \in Clients, body \in AccessBodies :
       hits[ip] < MaxRequests /\ CreateChapter(sess, ip, body)
  \/ \E ch \in ChapterIds, g \in AccessGenerate : GenerateReturns(ch, g)
  \/ \E ch \in ChapterIds, o \in AccessVerify : VerifyReturns(ch, o)
  \/ \E ch \in ChapterIds : FinishBackground(ch)
  \/ \E ctx \in AccessContexts, ch \in ChapterIds : GetChapter(ctx, ch)
  \/ \E ctx \in AccessContexts, ch \in ChapterIds : GetChapterResult(ctx, ch)
  \/ \E ctx \in AccessContexts, id \in 1..(MaxResults + 1) : GetResult(ctx, id)
  \/ \E ctx \in AccessContexts, ch \in ChapterIds, body \in AccessSubmits :
       Submit(ctx, ch, body)
  \/ \E ctx \in AccessContexts, body \in AccessStarts : StartSession(ctx, body)
  \/ \E ctx \in AccessContexts, id \in 1..(MaxSessions + 1), body \in AccessEnds :
       EndSession(ctx, id, body)
  \/ \E route \in ParentReads, sess \in ParentSessions, claimed \in Parents :
       ParentRead(route, sess, claimed)
  \/ \E sess \in ParentSessions, body \in CreateChildBodies : CreateChild(sess, body)
  \/ \E sess \in ParentSessions, id \in 1..(MaxResults + 1) : MarkNotificationRead(sess, id)
  \/ \E sess \in ParentSessions, claimed \in Parents : MarkAllRead(sess, claimed)
  \/ \E route \in ChildRoutes, ctx \in AccessContexts, claimed \in ClaimedChildren :
       ChildRoute(route, ctx, claimed)

SpecAccess == InitAllKeys /\ [][NextAccess]_vars

\* Creation of chapter rows: by upload and by assignment of a sample, by
\* callers with and without a parent session, and the reads that follow.
NextCreate ==
  \/ \E sess \in ParentSessions, ip \in Clients, body \in ChapterBodies :
       hits[ip] < MaxRequests /\ CreateChapter(sess, ip, body)
  \/ \E sess \in ParentSessions, sampleId \in SampleIds \cup {UnknownSample},
        body \in AssignBodies :
       AssignSample(sess, sampleId, body)
  \/ \E ctx \in AccessContexts, ch \in ChapterIds : GetChapter(ctx, ch)

SpecCreate == InitAllKeys /\ [][NextCreate]_vars

\* Submissions that run at once: sample chapters are assigned to the
\* children and answered by them; the handlers interleave at their awaits.
PerfectBody ==
  [valid |-> TRUE,
   practiceAnswers |-> [i \in 1..PracticeItems |-> QuestionAt(i).correct],
   testAnswers |-> [i \in 1..TestItems |-> QuestionAt(i).correct]]

ConcurrentSubmits == {b \in SubmitBodies : b.valid /\ b.testAnswers = <<>>} \cup {PerfectBody}

ConcurrentAssigns == {b \in AssignBodies : b.valid /\ b.childId \in Children}

NextSubmit ==
  \/ \E body \in ConcurrentAssigns : AssignSample(None, "s1", body)
  \/ \E slot \in 1..MaxSubmits, c \in Children, ch \in ChapterIds, body \in ConcurrentSubmits :
       SubmitStore(slot, ChildSession(c), ch, body)
  \/ \E slot \in 1..MaxSubmits : SubmitReadChild(slot)
  \/ \E slot \in 1..MaxSubmits : SubmitWriteStars(slot)
  \/ \E slot \in 1..MaxSubmits : SubmitNotify(slot)

SpecSubmit == InitAllKeys /\ [][NextSubmit]_vars

\* Badges: sample chapters are assigned and answered, and the children's
\* badges are checked by calls that interleave at their awaits.
BadgeSubmits == {b \in SubmitBodies : b.valid /\ b.testAnswers = <<>>} \cup {PerfectBody}

NextBadges ==
  \/ \E body \in ConcurrentAssigns : AssignSample(None, "s1", body)
  \/ \E c \in Children, ch \in ChapterIds, body \in BadgeSubmits :
       Submit(ChildSession(c), ch, body)
  \/ \E slot \in 1..MaxChecks, ctx \in AccessContexts, claimed \in ClaimedChildren :
       CheckBadgesBegin(slot, ctx, claimed)
  \/ \E slot \in 1..MaxChecks : AwardSelect(slot)
  \/ \E slot \in 1..MaxChecks : AwardInsert(slot)

SpecBadges == InitAllKeys /\ [][NextBadges]_vars

\* -------------------------------------------------------------------- claims

Ended(ch) == run[ch].pc \in {"returned", "threw", "done", "failed"}
InFlight(ch) == run[ch].pc \in {"generating", "verifying", "repairing", "reverifying"}
Entered(ch, stage) == \E i \in 1..Len(run[ch].trace) : run[ch].trace[i] = stage

\* C1 as stated: a run that has ended made 1, 2, 3 or 4 capability calls,
\* never 0 and never more than 4.
C1_CallsOneToFour ==
  \A ch \in ChapterIds : Ended(ch) => run[ch].calls \in 1..4

\* C1 as amended: a run never makes more than 4 capability calls, and a run
\* that has ended made none exactly when stage 1 threw before sending its
\* request (a photo that is no base64 data URL, or no Gemini API key).
C1_CallsAtMostFour ==
  \A ch \in ChapterIds :
    /\ run[ch].calls \in 0..4
    /\ Ended(ch) => (run[ch].calls = 0 <=> run[ch].s1 = "precall")

\* A run that went through all four calls and was stored.
C1_Witness ==
  \E ch \in ChapterIds : run[ch].pc = "done" /\ run[ch].calls = 4

\* C2: when stage 1 succeeded and stage 3 errored, returned no text or
\* returned unparseable output, the run returns exactly the stage-1 candidate.
C2_RepairFailureKeepsCandidate ==
  \A ch \in ChapterIds :
    (/\ run[ch].s1 = "ok"
     /\ run[ch].fix \in {"error", "notext", "nomatch", "unparseable", "jointhrew"}
     /\ Ended(ch))
    => /\ run[ch].pc \in {"returned", "done"}
       /\ run[ch].content = run[ch].candidate
       /\ run[ch].content # Null

\* C3: when the first verification call errors or its reply is unparseable,
\* the verdict is PASS: no repair and no re-verification follow, the run
\* returns the stage-1 content and does not throw, and that content is stored.
C3_VerifierFailureIsPass ==
  \A ch \in ChapterIds :
    run[ch].v1kind \in {"error", "unparseable"}
    => /\ run[ch].v1status = "PASS"
       /\ run[ch].pc \in {"returned", "done"}
       /\ run[ch].trace = <<"GENERATING", "VERIFYING">>
       /\ run[ch].calls <= 2
       /\ run[ch].content = run[ch].candidate
       /\ run[ch].content # Null
       /\ run[ch].pc = "done" => chapters[ch].content = run[ch].candidate

\* A stored run whose verifier replied with text JSON.parse rejects.
C3_Witness ==
  \E ch \in ChapterIds :
    /\ run[ch].v1kind = "unparseable"
    /\ run[ch].pc = "done"
    /\ chapters[ch].status = "ready"
    /\ chapters[ch].content = run[ch].candidate

\* C4: the repair stage is entered only after a first verdict FAIL.
C4_RepairOnlyAfterFail ==
  \A ch \in ChapterIds :
    Entered(ch, "REPAIRING") => run[ch].v1kind = "parsed" /\ run[ch].v1status = "FAIL"

IsPrefix(t, u) == Len(t) <= Len(u) /\ SubSeq(u, 1, Len(t)) = t

FullTraces ==
  {<<"GENERATING", "VERIFYING">>, <<"GENERATING", "VERIFYING", "REPAIRING", "RE_VERIFYING">>}

C6_StageOneSuccessDelivers ==
  \A ch \in ChapterIds :
    run[ch].s1 = "ok"
    => /\ run[ch].pc \notin {"threw", "failed"}
       /\ run[ch].pc = "done" =>
            /\ chapters[ch].status = "ready"
            /\ chapters[ch].content = run[ch].content
            /\ chapters[ch].content # Null

\* C7: stage 1 returns content only if it has exactly 5 practice and exactly
\* 10 test items; otherwise it throws and nothing is returned.
C7_WrongCountsFail ==
  \A ch \in ChapterIds :
    /\ run[ch].s1 = "ok" =>
         /\ run[ch].candidate.hasArrays
         /\ Len(run[ch].candidate.practice) = PracticeItems
         /\ Len(run[ch].candidate.test) = TestItems
    /\ run[ch].s1 \notin {None, "ok"} => run[ch].candidate = Null /\ run[ch].pc \in {"threw", "failed"}

\* C8: when stage 1 fails no verify or repair call is made, the row gets
\* status error with no content, and no later step changes an error row.
C8_StageOneFailed(ch) == run[ch].s1 \notin {None, "ok"}

C8_ErrorIsTerminal ==
  /\ [](\A ch \in ChapterIds :
          C8_StageOneFailed(ch)
          => /\ run[ch].trace = <<"GENERATING">>
             /\ run[ch].calls <= 1
             /\ run[ch].pc \in {"threw", "failed"}
             /\ chapters[ch].content = Null
             /\ run[ch].pc = "failed" => chapters[ch].status = "error")
  /\ [][\A ch \in ChapterIds :
          chapters[ch].status = "error" => chapters'[ch] = chapters[ch]]_vars

\* An error row of a failed stage 1 whose chapter has a learning session
\* that was started and ended.
C8_Witness ==
  \E ch \in ChapterIds :
    /\ C8_StageOneFailed(ch)
    /\ chapters[ch].status = "error"
    /\ \E i \in 1..Len(learningSessions) :
         learningSessions[i].chapterId = ch /\ learningSessions[i].ended

\* C9: until its task is over a row has been written once and every read
\* of it shows status processing and no content; the step that ends the
\* task is the second write and leaves ready with content, or error
\* without.
C9_TaskOver(ch) == run[ch].pc \in {"done", "failed"}

C9_TwoWrites ==
  /\ [](\A ch \in ChapterIds :
          (chapters[ch].exists /\ ~C9_TaskOver(ch))
          => /\ chapters[ch].writes = 1
             /\ \A ctx \in AccessContexts :
                  GetChapterResponse(ctx, ch).code = 200
                  => /\ GetChapterResponse(ctx, ch).status = "processing"
                     /\ GetChapterResponse(ctx, ch).content = Null)
  /\ [][\A ch \in ChapterIds :
          (chapters[ch].exists /\ ~C9_TaskOver(ch) /\ chapters'[ch] # chapters[ch])
          => /\ C9_TaskOver(ch)'
             /\ chapters'[ch].writes = 2
             /\ \/ chapters'[ch].status = "ready" /\ chapters'[ch].content # Null
                \/ chapters'[ch].status = "error" /\ chapters'[ch].content = Null]_vars

\* A row written the second time, ready with content, while the other
\* chapter's task is still running.
C9_Witness ==
  \E ch, other \in ChapterIds :
    /\ run[ch].pc = "done"
    /\ chapters[ch].writes = 2
    /\ chapters[ch].status = "ready"
    /\ InFlight(other)
    /\ chapters[other].writes = 1

\* C10: a client that has had 10 requests admitted in the window gets 429
\* for the next one whatever it carries, no earlier request is refused by
\* the limiter, and the refused request creates no row and starts no task.
C10_QuotaRejects ==
  /\ [](\A ip \in Clients, sess \in Parents, body \in ChapterBodies :
          CreateChapterStatus(sess, ip, body) = 429 <=> hits[ip] >= AiLimiterMax)
  /\ [][\A ip \in Clients :
          (hits[ip] >= AiLimiterMax /\ hits'[ip] # hits[ip] /\ hits'[ip] # 0)
          => /\ chapters' = chapters
             /\ chapterPhotos' = chapterPhotos
             /\ run' = run]_vars

\* The 11th request of the window was refused, after requests that
\* created both chapters.
C10_Witness ==
  \E ip \in Clients :
    /\ hits[ip] = AiLimiterMax + 1
    /\ \A ch \in ChapterIds : chapters[ch].exists

\* The caller's child id is the chapter's, or the caller's parent id is.
Owns(ctx, chapter) ==
  \/ ctx.childId # None /\ chapter.childId = ctx.childId
  \/ ctx.parentId # None /\ chapter.parentId = ctx.parentId

C12_Edge(t) ==
  /\ t.childId \in Children
  /\ children[t.childId].parentId = t.parentId
  /\ \E pt \in parentTokens :
       /\ pt.userId = t.parentId
       /\ pt.issuedAt <= t.issuedAt
       /\ t.issuedAt < pt.issuedAt + ParentExpiryDays

C12_ChildLoginMints ==
  /\ [](/\ \A t \in childTokens : C12_Edge(t)
        /\ \A jar \in Jars, body \in ChildLoginBodies :
             /\ (/\ body.childId \in Children
                 /\ VerifyParentToken(jar.parentToken)
                 /\ children[body.childId].parentId # jar.parentToken.userId)
                => ChildLoginStatus(jar, body) = 403
             /\ ChildLoginStatus(jar, body) = 200
                => /\ VerifyParentToken(jar.parentToken)
                   /\ body.childId \in Children
                   /\ children[body.childId].parentId = jar.parentToken.userId)
  /\ [][childTokens' # childTokens
        => \E t \in childTokens' :
             /\ childTokens' = childTokens \cup {t}
             /\ t.issuedAt = now
             /\ C12_Edge(t)]_vars

\* Both parents are logged in, p1's child has a token, and p2's login for
\* that child is refused with 403.
C12_Witness ==
  /\ \E t \in childTokens : t.childId = "c1" /\ t.parentId = "p1"
  /\ \E jar \in Jars :
       /\ VerifyParentToken(jar.parentToken)
       /\ jar.parentToken.userId = "p2"
       /\ ChildLoginStatus(jar, [childId |-> "c1", parentId |-> "p2"]) = 403

C14_ParentScopeIsSession ==
  \A sess \in Parents, claimed \in Parents :
    /\ \A route \in ParentReads :
         /\ ParentReadResponse(route, sess, claimed).code = 200
         /\ \A row \in ParentReadResponse(route, sess, claimed).rows : RowParent(row) = sess
    /\ \A body \in CreateChildBodies :
         /\ CreateChildStatus(sess, body) = 200 => body.parentId = sess
         /\ (body.valid /\ body.parentId # sess) => CreateChildStatus(sess, body) = 403
    /\ \A ip \in Clients, body \in ChapterBodies :
         CreateChapterStatus(sess, ip, body) = 200 => body.parentId = sess
    /\ \A id \in 1..Len(notifications) :
         MarkReadStatus(sess, id) = 200 <=> notifications[id].userId = sess
    /\ \A i \in 1..Len(notifications) :
         MarkAllReadRows(sess, claimed)[i] # notifications[i] => notifications[i].userId = sess

\* Parent p2 has a chapter and an unread notification, parent p1 has a
\* chapter: p1's requests that name p2 read p1's chapter and leave p2's
\* notification unread.
C14_Witness ==
  /\ ChaptersByParent("p2") # {}
  /\ ParentReadResponse("chapters", "p1", "p2").rows # {}
  /\ \E i \in 1..Len(notifications) :
       /\ notifications[i].userId = "p2"
       /\ ~notifications[i].read
       /\ MarkReadStatus("p1", i) = 403
       /\ MarkAllReadRows("p1", "p2") = notifications

C16_ParentOnlyOwnChildren ==
  \A p \in Parents :
    LET ctx == ParentSession(p)
    IN /\ \A route \in ChildRoutes, claimed \in ClaimedChildren :
            ChildRouteResponse(route, ctx, claimed).code = 200
            => claimed \in DOMAIN children /\ children[claimed].parentId = p
       /\ \A ch \in ChapterIds :
            (GetChapterResponse(ctx, ch).code = 200 \/ GetChapterResultStatus(ctx, ch) = 200)
            => children[chapters[ch].childId].parentId = p
       /\ \A id \in 1..Len(results) :
            GetResultStatus(ctx, id) = 200 => children[results[id].childId].parentId = p
       /\ \A body \in StartBodies :
            StartSessionStatus(ctx, body) = 200 => children[body.childId].parentId = p
       /\ \A id \in 1..Len(learningSessions), body \in EndBodies :
            EndSessionStatus(ctx, id, body) = 200
            => children[learningSessions[id].childId].parentId = p

\* C17: a request with a valid session for a chapter that exists and is
\* not the caller's is answered 403, and 404 is answered only for a
\* chapter that does not exist.
C17_ForbiddenNotNotFound ==
  \A ctx \in AccessContexts \ {NoSession}, ch \in ChapterIds :
    /\ (chapters[ch].exists /\ ~Owns(ctx, chapters[ch]))
       => /\ GetChapterResponse(ctx, ch).code = 403
          /\ GetChapterResultStatus(ctx, ch) = 403
          /\ \A body \in SubmitBodies : body.valid => SubmitStatus(ctx, ch, body) = 403
    /\ GetChapterResponse(ctx, ch).code = 404 => ~chapters[ch].exists
    /\ \A body \in SubmitBodies : SubmitStatus(ctx, ch, body) = 404 => ~chapters[ch].exists

\* The positions from i on at which the answer equals the designator of
\* the question at the same position.
RECURSIVE Matches(_, _, _)
Matches(answers, questions, i) ==
  IF i > Len(answers) THEN 0
  ELSE (IF i <= Len(questions) /\ answers[i] = questions[i].correct THEN 1 ELSE 0)
       + Matches(answers, questions, i + 1)

\* C18: calculateScores returns as practiceScore and testScore the number of
\* positions at which the answer equals, case included, the designator of
\* the question at that position, and as totalScore their sum; an answer
\* with no question at its position is not counted; five of five and seven
\* of ten give 5, 7, 12 and 4 stars.
C18_ScoresCountMatches ==
  (calc.fn = "calculateScores" /\ calc.at = "return")
  => /\ calc.result.practiceScore = Matches(calc.practiceAnswers, calc.practiceQuestions, 1)
     /\ calc.result.testScore = Matches(calc.testAnswers, calc.testQuestions, 1)
     /\ calc.result.totalScore = calc.result.practiceScore + calc.result.testScore
     /\ calc.result.practiceScore <= Len(calc.practiceQuestions)
     /\ calc.result.testScore <= Len(calc.testQuestions)
     /\ (/\ calc.practiceAnswers = ExamplePractice
         /\ calc.testAnswers = ExampleTest
         /\ calc.practiceQuestions = Questions(PracticeItems)
         /\ calc.testQuestions = Questions(TestItems))
        => calc.result = [practiceScore |-> 5, testScore |-> 7, totalScore |-> 12, stars |-> 4]

\* calculateScores has returned for two answers "A", "a" against one
\* question "A": one match, the second answer has no question.
C18_Witness ==
  /\ calc.fn = "calculateScores"
  /\ calc.at = "return"
  /\ calc.practiceAnswers = <<"A", "a">>
  /\ calc.practiceQuestions = <<[correct |-> "A"]>>
  /\ calc.testAnswers = <<"a">>
  /\ calc.testQuestions = <<[correct |-> "A"]>>
  /\ calc.result.practiceScore = 1
  /\ calc.result.testScore = 0

\* C19: calculateStars(score, total) is 5 when 100*score >= 90*total, else
\* 4 when >= 80*total, else 3 when >= 70*total, else 2 when >= 60*total,
\* else 1; out of 15: 14-15 give 5, 12-13 give 4, 11 gives 3, 9-10 give 2,
\* 0-8 give 1; the result is in 1..5.
C19_StarsThresholds ==
  (calc.fn = "calculateStars" /\ calc.at = "return")
  => LET s == calc.score
         t == calc.total
         r == calc.result
     IN /\ r \in 1..5
        /\ r = 5 <=> 100 * s >= 90 * t
        /\ r = 4 <=> (100 * s >= 80 * t /\ 100 * s < 90 * t)
        /\ r = 3 <=> (100 * s >= 70 * t /\ 100 * s < 80 * t)
        /\ r = 2 <=> (100 * s >= 60 * t /\ 100 * s < 70 * t)
        /\ r = 1 <=> 100 * s < 60 * t
        /\ (t = TotalQuestions /\ s <= TotalQuestions)
           => r = (IF s \in {14, 15} THEN 5
                   ELSE IF s \in {12, 13} THEN 4
                   ELSE IF s = 11 THEN 3
                   ELSE IF s \in {9, 10} THEN 2
                   ELSE 1)

\* calculateStars(12, 15) has returned 4: exactly 80 percent.
C19_Witness ==
  /\ calc.fn = "calculateStars"
  /\ calc.at = "return"
  /\ calc.score = 12
  /\ calc.total = TotalQuestions
  /\ calc.result = 4

C21_PhotoCountValidated ==
  \A ch \in ChapterIds :
    (chapters[ch].exists /\ run[ch].pc # "idle") => chapterPhotos[ch] \in 1..MaxPhotos

\* C22: a token whose cookie a logout cleared is accepted by the gates as
\* long as it has not expired; no step takes an issued token back, and a
\* token that was accepted stops being accepted only when the clock
\* reaches its expiry.
C22_LogoutRevokesNothing ==
  /\ [](\A jar \in Jars :
          /\ (jar.parentToken \in cleared /\ now < jar.parentToken.issuedAt + ParentExpiryDays)
             => /\ RequireParentSession(jar) = jar.parentToken.userId
                /\ \A body \in ChildLoginBodies :
                     ChildLoginStatus(jar, body) \notin {401}
                     \/ body.childId = None
          /\ (jar.childToken \in cleared /\ now < jar.childToken.issuedAt + ChildExpiryDays)
             => RequireChildAccess(jar) = {ChildSession(jar.childToken.childId)})
  /\ [][/\ parentTokens \subseteq parentTokens'
        /\ childTokens \subseteq childTokens'
        /\ \A tok \in parentTokens :
             (VerifyParentToken(tok) /\ ~VerifyParentToken(tok)')
             => now' >= tok.issuedAt + ParentExpiryDays
        /\ \A tok \in childTokens :
             (VerifyChildToken(tok) /\ ~VerifyChildToken(tok)')
             => now' >= tok.issuedAt + ChildExpiryDays]_vars

\* A parent token and a child token were both cleared by a logout, a day
\* has not passed since the child token was issued, and both still pass
\* their gates.
C22_Witness ==
  \E pt \in parentTokens \cap cleared, ct \in childTokens \cap cleared :
    /\ now > pt.issuedAt
    /\ now < ct.issuedAt + ChildExpiryDays
    /\ RequireParentSession([parentToken |-> pt, childToken |-> NoCookie]) = pt.userId
    /\ RequireChildAccess([parentToken |-> NoCookie, childToken |-> ct])
         = {ChildSession(ct.childId)}

\* C23: every chapter row carries as parentId the parent of the child its
\* childId names.
C23_ChapterParentIsChildParent ==
  \A ch \in ChapterIds :
    chapters[ch].exists
    => /\ chapters[ch].childId \in DOMAIN children
       /\ children[chapters[ch].childId].parentId = chapters[ch].parentId

\* C24: POST /api/chapters and POST /api/sample-chapters/:sampleId/assign
\* answer 200 only to a caller with a valid parent session whose parent is
\* the parentId of the new row; never to a caller without a session.
C24_CreationNeedsParentSession ==
  \A sess \in ParentSessions :
    /\ \A ip \in Clients, body \in ChapterBodies :
         CreateChapterStatus(sess, ip, body) = 200 => (sess # None /\ body.parentId = sess)
    /\ \A sampleId \in SampleIds \cup {UnknownSample}, body \in AssignBodies :
         AssignSampleStatus(sess, sampleId, body) = 200
         => (sess # None /\ body.parentId = sess)

\* The stars of the results stored for a child, from place i on.
RECURSIVE StarsOfResults(_, _)
StarsOfResults(c, i) ==
  IF i > Len(results) THEN 0
  ELSE (IF results[i].childId = c THEN results[i].stars ELSE 0) + StarsOfResults(c, i + 1)

\* C25: once no submission for a child is between storing its result and
\* writing the stars, the child's totalStars is the sum of the stars of
\* the results stored for the child.
C25_StarsAreSumOfResults ==
  \A c \in Children :
    (\A slot \in 1..MaxSubmits :
       submits[slot].childId = c => submits[slot].pc \notin {"stored", "read"})
    => children[c].totalStars = StarsOfResults(c, 1)

\* The caller is the child, or a parent session of the child's parent.
CallerOfChild(ctx, c) ==
  \/ ctx.childId = c
  \/ /\ ctx.childId = None
     /\ ctx.parentId # None
     /\ children[c].parentId = ctx.parentId

\* C26: POST /api/sessions/start answers 200 only to the child of the body
\* or to that child's parent, and only for a chapter of that child; every
\* stored learning session names a chapter of its own child; POST
\* /api/sessions/:id/end answers 200 only to the session's child or to
\* that child's parent.
C26_SessionsOfOwnChapters ==
  /\ [](/\ \A ctx \in AccessContexts, body \in StartBodies :
             StartSessionStatus(ctx, body) = 200
             => /\ CallerOfChild(ctx, body.childId)
                /\ chapters[body.chapterId].exists
                /\ chapters[body.chapterId].childId = body.childId
        /\ \A i \in 1..Len(learningSessions) :
             /\ chapters[learningSessions[i].chapterId].exists
             /\ chapters[learningSessions[i].chapterId].childId = learningSessions[i].childId
        /\ \A ctx \in AccessContexts, i \in 1..Len(learningSessions), body \in EndBodies :
             EndSessionStatus(ctx, i, body) = 200
             => CallerOfChild(ctx, learningSessions[i].childId))
  /\ [][\A i \in 1..Len(learningSessions) :
          /\ Len(learningSessions') >= Len(learningSessions)
          /\ learningSessions'[i].childId = learningSessions[i].childId
          /\ learningSessions'[i].chapterId = learningSessions[i].chapterId
          /\ learningSessions'[i] # learningSessions[i]
             => \E ctx \in AccessContexts, body \in EndBodies :
                  /\ EndSessionStatus(ctx, i, body) = 200
                  /\ CallerOfChild(ctx, learningSessions[i].childId)]_vars

\* A learning session of child c1 for a chapter of c1 was ended; child
\* c2 and parent p2 are refused when they end it, parent p1 is not.
C26_Witness ==
  \E i \in 1..Len(learningSessions), body \in EndBodies :
    /\ learningSessions[i].childId = "c1"
    /\ learningSessions[i].ended
    /\ chapters[learningSessions[i].chapterId].childId = "c1"
    /\ body.valid
    /\ EndSessionStatus(ChildSession("c2"), i, body) = 403
    /\ EndSessionStatus(ParentSession("p2"), i, body) = 403
    /\ EndSessionStatus(ParentSession("p1"), i, body) = 200

\* The first balanced object of a text: from its first "{" to the first
\* "}" that closes it; <<>> when there is none.
FirstBalancedObject(text) ==
  LET opens == {i \in 1..Len(text) : text[i] = "{"}
  IN IF opens = {} THEN <<>>
     ELSE LET first == Min(opens)
              ends == {j \in first..Len(text) :
                         text[j] = "}" /\ Depth(text, j + 1) = Depth(text, first)}
          IN IF ends = {} THEN <<>> ELSE SubSeq(text, first, Min(ends))

\* One well-formed object between text that is not JSON: prose before it,
\* and after it text with no balanced object, braces allowed.
IsEmbeddedObject(text) ==
  LET obj == FirstBalancedObject(text)
      opens == {i \in 1..Len(text) : text[i] = "{"}
      rest == SubSeq(text, Min(opens) + Len(obj), Len(text))
  IN /\ obj # <<>>
     /\ IsJSONObject(obj)
     /\ FirstBalancedObject(rest) = <<>>

\* C27: for a reply that is one well-formed object between text that is
\* not JSON, the extraction of the generate and repair stages gives the
\* first balanced object of the reply.
C27_ExtractsFirstBalanced ==
  (calc.fn = "match" /\ calc.at = "return" /\ IsEmbeddedObject(calc.text))
  => calc.result = FirstBalancedObject(calc.text)

\* C28: the content of every chapter whose status is ready or completed
\* has exactly 5 practice and exactly 10 test questions, whether stage 1
\* or the repair stage produced it.
C28_ReadyContentIsComplete ==
  \A ch \in ChapterIds :
    chapters[ch].status \in {"ready", "completed"}
    => /\ chapters[ch].content # Null
       /\ chapters[ch].content.hasArrays
       /\ Len(chapters[ch].content.practice) = PracticeItems
       /\ Len(chapters[ch].content.test) = TestItems

\* C29: a child holds each badge at most once, and no badge is in the
\* newlyEarned of two checks for the same child.
C29_BadgeAtMostOnce ==
  /\ \A c \in Children, i \in 1..Len(AllBadges) :
       Cardinality(BadgeRows(c, AllBadges[i])) <= 1
  /\ \A s1 \in 1..MaxChecks, s2 \in 1..MaxChecks :
       (s1 # s2 /\ checks[s1].childId = checks[s2].childId)
       => \A i \in 1..Len(checks[s1].newlyEarned), j \in 1..Len(checks[s2].newlyEarned) :
            checks[s1].newlyEarned[i] # checks[s2].newlyEarned[j]

\* C30: when a call of checkAndAwardBadges that read a result with all 15
\* questions right has returned, the child holds the Perfect Score badge.
C30_PerfectScoreAwarded ==
  \A slot \in 1..MaxChecks :
    (/\ checks[slot].pc = "returned"
     /\ \E i \in 1..Len(checks[slot].results) :
          checks[slot].results[i].totalScore = TotalQuestions)
    => BadgeRows(checks[slot].childId, "perfect_score") # {}

====
